---- MODULE Spec2Model ----
(***************************************************************************)
(* Model of queries.js: run() opens one connection, awaits a fixed list of *)
(* query functions against the books collection, and closes the           *)
(* connection in a finally block.  The collection and its indexes are the  *)
(* database-side state every query function reads or changes.              *)
(*                                                                         *)
(* Prices are decimals in the source; they are held in cents (7.99 is      *)
(* 799).  Execution times reported by explain() are measurements and are   *)
(* not part of the state.  published_year is a non-negative integer, page  *)
(* and pageSize are integers >= 0, and client.close() resolves.            *)
(***************************************************************************)
EXTENDS Integers, Sequences, FiniteSets, TLC

VARIABLES
    pc,        \* position of run(): "start", "body", "catch", "finally", "closing", "done"
    conn,      \* the client handle: "new", "open", "closed"
    next,      \* index in the run list of the next query function to call
    inflight,  \* requests sent to the database and not yet answered
    coll,      \* the books collection, in natural order
    indexes,   \* secondary indexes of the collection (the _id index is implicit)
    pre,       \* the collection as it was when the last finished function was called
    out,       \* what the last finished function printed
    err,       \* the call whose rejection was thrown, "none" if nothing was thrown
    errors,    \* number of times the catch block logged
    closes     \* number of times client.close() was called

vars == <<pc, conn, next, inflight, coll, indexes, pre, out, err, errors, closes>>

-----------------------------------------------------------------------------
(* Bounds of the model *)

MaxDocs == 3        \* documents in the seeded collection
MaxCalls == 2       \* functions enabled in a run whose list is chosen freely
MaxPage == 2        \* page numbers tried are 0..MaxPage

-----------------------------------------------------------------------------
(* Book documents *)

Book(t, a, g, y, p, s) ==
    [title |-> t, author |-> a, genre |-> g, published_year |-> y,
     price |-> p, in_stock |-> s]

\* Documents the seeding script may have put in the collection; a document may
\* be there more than once (the script run twice).
SampleBooks ==
    { Book("1984", "George Orwell", "Fiction", 1955, 1000, TRUE),
      Book("Moby Dick", "Herman Melville", "Fiction", 1959, 2000, FALSE),
      Book("Wuthering Heights", "Emily Bronte", "Gothic", 1960, 999, TRUE) }

SeededCollections ==
    UNION { [1..n -> SampleBooks] : n \in 1..MaxDocs }

TitleIndex == <<"title", 1>>
CompoundIndex == <<"author", 1, "published_year", -1>>

Min(S) == CHOOSE x \in S : \A y \in S : x <= y

-----------------------------------------------------------------------------
(* The database calls the query functions make *)

Indices(c) == 1..Len(c)
Docs(c) == { c[i] : i \in Indices(c) }

\* find(filter).toArray(): the documents of c the filter matches, in natural
\* order; the filter is given as the set of documents it matches
find(c, filter) == SelectSeq(c, LAMBDA b : b \in filter)

\* updateOne with upsert: true, which inserts a document when nothing matches
updateOneUpsert(c, title, newPrice) ==
    LET hits == { i \in 1..Len(c) : c[i].title = title }
    IN  IF hits = {}
        THEN [coll |-> Append(c, [title |-> title, price |-> newPrice]),
              matchedCount |-> 0, modifiedCount |-> 0]
        ELSE LET i == Min(hits)
             IN  [coll |-> [c EXCEPT ![i].price = newPrice],
                  matchedCount |-> 1,
                  modifiedCount |-> IF c[i].price = newPrice THEN 0 ELSE 1]

\* updateOne({title}, {$set: {price}}): no upsert, first match only
updateOne(c, title, newPrice) ==
    LET hits == { i \in 1..Len(c) : c[i].title = title }
    IN  IF hits = {}
        THEN [coll |-> c, matchedCount |-> 0, modifiedCount |-> 0]
        ELSE LET i == Min(hits)
             IN  [coll |-> [c EXCEPT ![i].price = newPrice],
                  matchedCount |-> 1,
                  modifiedCount |-> IF c[i].price = newPrice THEN 0 ELSE 1]

\* deleteMany({title}): every match
deleteMany(c, title) ==
    [coll |-> SelectSeq(c, LAMBDA b : b.title # title),
     deletedCount |-> Cardinality({ i \in 1..Len(c) : c[i].title = title })]

\* deleteOne({title}): first match only
deleteOne(c, title) ==
    LET hits == { i \in 1..Len(c) : c[i].title = title }
    IN  IF hits = {}
        THEN [coll |-> c, deletedCount |-> 0]
        ELSE LET i == Min(hits)
             IN  [coll |-> SubSeq(c, 1, i - 1) \o SubSeq(c, i + 1, Len(c)),
                  deletedCount |-> 1]

\* cursor.skip(n): the server rejects a negative skip (see paginateBooks)
skip(s, n) == SubSeq(s, n + 1, Len(s))

\* cursor.limit(n): a limit of 0 is no limit
limit(s, n) == IF n = 0 \/ n >= Len(s) THEN s ELSE SubSeq(s, 1, n)

\* Every ordering of the rows S that a sort may return, the sort order given as
\* the set of pairs <<a, b>> where a may come before b (the order of rows that
\* compare equal is not specified).
sorted(S, before) ==
    { r \in [1..Cardinality(S) -> S] :
        /\ \A i, j \in 1..Cardinality(S) : i # j => r[i] # r[j]
        /\ \A i, j \in 1..Cardinality(S) : i < j => <<r[i], r[j]>> \in before }

RECURSIVE SumPrice(_, _)
SumPrice(c, I) ==
    IF I = {} THEN 0
    ELSE LET i == CHOOSE x \in I : TRUE IN c[i].price + SumPrice(c, I \ {i})

\* $group by genre with $avg of price; the average is kept as sum over count
groupByGenre(c) ==
    { [_id |-> g,
       averagePrice |->
          [sum |-> SumPrice(c, { i \in Indices(c) : c[i].genre = g }),
           n |-> Cardinality({ i \in Indices(c) : c[i].genre = g })]]
      : g \in { c[i].genre : i \in Indices(c) } }

\* $group by author with $sum: 1
groupByAuthor(c) ==
    { [_id |-> a, totalBooks |-> Cardinality({ i \in Indices(c) : c[i].author = a })]
      : a \in { c[i].author : i \in Indices(c) } }

\* $mod by 100 in place of 10
centuryOf(y) == y - (y % 100)

\* $subtract: [published_year, $mod: [published_year, 10]]
decadeOf(y) == y - (y % 10)

\* $group by decade with $sum: 1
groupByDecade(c) ==
    { [_id |-> d,
       totalBooks |-> Cardinality({ i \in Indices(c) : decadeOf(c[i].published_year) = d })]
      : d \in { decadeOf(c[i].published_year) : i \in Indices(c) } }

\* find({title: "1984"}).explain("executionStats")
explain(c, ix, title) ==
    IF TitleIndex \in ix
    THEN [stage |-> "FETCH",
          totalDocsExamined |-> Len(find(c, { b \in Docs(c) : b.title = title }))]
    ELSE [stage |-> "COLLSCAN", totalDocsExamined |-> Len(c)]

-----------------------------------------------------------------------------
(* run() *)

Call(op, call, args) == [op |-> op, call |-> call, args |-> args]

\* The calls of run(), in order, with their literal arguments; call is the first
\* database request the function sends.
RunList ==
    << Call("findAllBooks", "find", <<>>),
       Call("findAfterYear", "find", <<1959>>),
       Call("findByAuthor", "find", <<"George Orwell">>),
       Call("updateBookPrice", "updateOne", <<"Wuthering Heights", 799>>),
       Call("deleteBookByTitle", "deleteOne", <<"Moby Dick">>),
       Call("findInStockAfter2010", "find", <<>>),
       Call("projectTitleAuthorPrice", "find", <<>>),
       Call("sortByPrice", "find", <<"asc">>),
       Call("paginateBooks", "find", <<1, 5>>),
       Call("averagePriceByGenre", "aggregate", <<>>),
       Call("authorWithMostBooks", "aggregate", <<>>),
       Call("booksByDecade", "aggregate", <<>>),
       Call("createTitleIndex", "createIndex", <<>>),
       Call("createCompoundIndex", "createIndex", <<>>),
       Call("analyzeIndexPerformance", "dropIndexes", <<>>) >>

NoOutput == [op |-> "none", args |-> <<>>, rows |-> <<>>, report |-> ""]

Printed(rows, report) ==
    [op |-> Head(inflight).op, args |-> Head(inflight).args,
     rows |-> rows, report |-> report]

Init ==
    /\ pc = "start"
    /\ conn = "new"
    /\ next = 1
    /\ inflight = <<>>
    /\ coll \in SeededCollections
    /\ indexes \in SUBSET {TitleIndex, CompoundIndex}
    /\ pre = coll
    /\ out = NoOutput
    /\ err = "none"
    /\ errors = 0
    /\ closes = 0

\* A call without await: the task goes on whether or not the request was answered
notAwaited == TRUE

\* await: the task goes on only when the request it sent has been answered
awaited == inflight = <<>>

\* await client.connect(), sent
connect ==
    /\ pc = "start"
    /\ awaited
    /\ inflight' = Append(inflight, Call("connect", "connect", <<>>))
    /\ pc' = "body"
    /\ UNCHANGED <<conn, next, coll, indexes, pre, out, err, errors, closes>>

\* client.connect() answered
connected ==
    /\ pc = "body"
    /\ inflight # <<>>
    /\ Head(inflight).op = "connect"
    /\ conn' = "open"
    /\ inflight' = Tail(inflight)
    /\ UNCHANGED <<pc, next, coll, indexes, pre, out, err, errors, closes>>

\* The next await of the try block: the function is called and its first request sent
callNext ==
    /\ pc = "body"
    /\ awaited
    /\ next <= Len(RunList)
    /\ inflight' = Append(inflight, RunList[next])
    /\ next' = next + 1
    /\ UNCHANGED <<pc, conn, coll, indexes, pre, out, err, errors, closes>>

\* The end of the try block is reached without a throw
endOfTry ==
    /\ pc = "body"
    /\ awaited
    /\ next > Len(RunList)
    /\ pc' = "finally"
    /\ UNCHANGED <<conn, next, inflight, coll, indexes, pre, out, err, errors, closes>>

\* A rejection caught around the single call: the try block goes on
failSwallowed ==
    /\ pc = "body"
    /\ inflight # <<>>
    /\ err' = Head(inflight).call
    /\ inflight' = Tail(inflight)
    /\ UNCHANGED <<pc, conn, next, coll, indexes, pre, out, errors, closes>>

\* A request is rejected (connection refused, server error): the await throws
fail ==
    /\ pc = "body"
    /\ inflight # <<>>
    /\ err' = Head(inflight).call
    /\ inflight' = Tail(inflight)
    /\ pc' = "catch"
    /\ UNCHANGED <<conn, next, coll, indexes, pre, out, errors, closes>>

\* close() at the end of the try block instead of in finally
catchErrorNoFinally ==
    /\ pc = "catch"
    /\ errors' = errors + 1
    /\ pc' = "done"
    /\ UNCHANGED <<conn, next, inflight, coll, indexes, pre, out, err, closes>>

\* catch (err) { console.error(...) }
catchError ==
    /\ pc = "catch"
    /\ errors' = errors + 1
    /\ pc' = "finally"
    /\ UNCHANGED <<conn, next, inflight, coll, indexes, pre, out, err, closes>>

\* finally { await client.close() }, sent
close ==
    /\ pc = "finally"
    /\ awaited
    /\ inflight' = Append(inflight, Call("close", "close", <<>>))
    /\ closes' = closes + 1
    /\ pc' = "closing"
    /\ UNCHANGED <<conn, next, coll, indexes, pre, out, err, errors>>

\* client.close() answered; the closing message is printed and run() returns
closed ==
    /\ pc = "closing"
    /\ inflight # <<>>
    /\ Head(inflight).op = "close"
    /\ conn' = "closed"
    /\ inflight' = Tail(inflight)
    /\ pc' = "done"
    /\ UNCHANGED <<next, coll, indexes, pre, out, err, errors, closes>>

-----------------------------------------------------------------------------
(* The query functions: each action is the answer to the function's request  *)
(* and the rest of the function body, up to its return.                      *)

answering(op, call) ==
    /\ pc = "body"
    /\ inflight # <<>>
    /\ Head(inflight).op = op
    /\ Head(inflight).call = call

\* A read-only function returns after printing rows
reads(rows) ==
    /\ out' = Printed(rows, "")
    /\ pre' = coll
    /\ inflight' = Tail(inflight)
    /\ UNCHANGED <<pc, conn, next, coll, indexes, err, errors, closes>>

findAllBooks ==
    /\ answering("findAllBooks", "find")
    /\ reads(find(coll, Docs(coll)))

findAfterYear ==
    /\ answering("findAfterYear", "find")
    /\ LET year == Head(inflight).args[1]
       IN  reads(find(coll, { b \in Docs(coll) : b.published_year > year }))

findByAuthor ==
    /\ answering("findByAuthor", "find")
    /\ LET authorName == Head(inflight).args[1]
       IN  reads(find(coll, { b \in Docs(coll) : b.author = authorName }))

updateBookPrice ==
    /\ answering("updateBookPrice", "updateOne")
    /\ LET title == Head(inflight).args[1]
           newPrice == Head(inflight).args[2]
           result == updateOne(coll, title, newPrice)
       IN  /\ coll' = result.coll
           /\ out' = Printed(<<>>, IF result.modifiedCount # 0
                                   THEN "Success" ELSE "No match found")
    /\ pre' = coll
    /\ inflight' = Tail(inflight)
    /\ UNCHANGED <<pc, conn, next, indexes, err, errors, closes>>

deleteBookByTitle ==
    /\ answering("deleteBookByTitle", "deleteOne")
    /\ LET title == Head(inflight).args[1]
           result == deleteOne(coll, title)
       IN  /\ coll' = result.coll
           /\ out' = Printed(<<>>, IF result.deletedCount # 0
                                   THEN "Success" ELSE "No match found")
    /\ pre' = coll
    /\ inflight' = Tail(inflight)
    /\ UNCHANGED <<pc, conn, next, indexes, err, errors, closes>>

findInStockAfter2010 ==
    /\ answering("findInStockAfter2010", "find")
    /\ reads(find(coll, { b \in Docs(coll) :
                              b.in_stock = TRUE /\ b.published_year > 2010 }))

projectTitleAuthorPrice ==
    /\ answering("projectTitleAuthorPrice", "find")
    /\ reads([i \in Indices(coll) |->
                [title |-> coll[i].title, author |-> coll[i].author,
                 price |-> coll[i].price]])

sortByPrice ==
    /\ answering("sortByPrice", "find")
    /\ LET order == Head(inflight).args[1]
           sortOrder == IF order = "asc" THEN 1 ELSE -1
       IN  \E r \in sorted(Indices(coll),
                           { <<i, j>> \in Indices(coll) \X Indices(coll) :
                               sortOrder * coll[i].price <= sortOrder * coll[j].price }) :
               reads([k \in Indices(coll) |-> coll[r[k]]])

paginateBooks ==
    /\ answering("paginateBooks", "find")
    /\ LET page == Head(inflight).args[1]
           pageSize == Head(inflight).args[2]
           skipped == (page - 1) * pageSize
       IN  IF skipped < 0
           THEN \* the request is rejected: toArray() throws
                /\ err' = "find"
                /\ inflight' = Tail(inflight)
                /\ pc' = "catch"
                /\ UNCHANGED <<conn, next, coll, indexes, pre, out, errors, closes>>
           ELSE reads(limit(skip(coll, skipped), pageSize))

averagePriceByGenre ==
    /\ answering("averagePriceByGenre", "aggregate")
    /\ \E r \in sorted(groupByGenre(coll),
                       { <<a, b>> \in groupByGenre(coll) \X groupByGenre(coll) :
                           a.averagePrice.sum * b.averagePrice.n
                             >= b.averagePrice.sum * a.averagePrice.n }) :
           reads(r)

\* $sort: { totalBooks: 1 }
authorWithMostBooksAscending ==
    /\ answering("authorWithMostBooks", "aggregate")
    /\ \E r \in sorted(groupByAuthor(coll),
                       { <<a, b>> \in groupByAuthor(coll) \X groupByAuthor(coll) :
                           a.totalBooks <= b.totalBooks }) :
           reads(limit(r, 1))

authorWithMostBooks ==
    /\ answering("authorWithMostBooks", "aggregate")
    /\ \E r \in sorted(groupByAuthor(coll),
                       { <<a, b>> \in groupByAuthor(coll) \X groupByAuthor(coll) :
                           a.totalBooks >= b.totalBooks }) :
           reads(limit(r, 1))

booksByDecade ==
    /\ answering("booksByDecade", "aggregate")
    /\ \E r \in sorted(groupByDecade(coll),
                       { <<a, b>> \in groupByDecade(coll) \X groupByDecade(coll) :
                           a._id <= b._id }) :
           reads(r)

createTitleIndex ==
    /\ answering("createTitleIndex", "createIndex")
    /\ indexes' = indexes \cup {TitleIndex}
    /\ out' = Printed(<<>>, "title_1")
    /\ pre' = coll
    /\ inflight' = Tail(inflight)
    /\ UNCHANGED <<pc, conn, next, coll, err, errors, closes>>

createCompoundIndex ==
    /\ answering("createCompoundIndex", "createIndex")
    /\ indexes' = indexes \cup {CompoundIndex}
    /\ out' = Printed(<<>>, "author_1_published_year_-1")
    /\ pre' = coll
    /\ inflight' = Tail(inflight)
    /\ UNCHANGED <<pc, conn, next, coll, err, errors, closes>>

\* analyzeIndexPerformance awaits four requests in turn; each action below is
\* the answer to one of them followed by the code up to the next await.
Query == "1984"

\* dropIndex("title_1") in place of dropIndexes()
analyzeDropTitleIndex ==
    /\ answering("analyzeIndexPerformance", "dropIndexes")
    /\ indexes' = indexes \ {TitleIndex}
    /\ inflight' = <<Call("analyzeIndexPerformance", "explainBefore", <<>>)>> \o Tail(inflight)
    /\ UNCHANGED <<pc, conn, next, coll, pre, out, err, errors, closes>>

\* await books.dropIndexes(): every index but the _id index is dropped
analyzeDropIndexes ==
    /\ answering("analyzeIndexPerformance", "dropIndexes")
    /\ indexes' = {}
    /\ inflight' = <<Call("analyzeIndexPerformance", "explainBefore", <<>>)>> \o Tail(inflight)
    /\ UNCHANGED <<pc, conn, next, coll, pre, out, err, errors, closes>>

\* before = await books.find(query).explain(...), then the Before lines are printed
analyzeExplainBefore ==
    /\ answering("analyzeIndexPerformance", "explainBefore")
    /\ out' = Printed(<<explain(coll, indexes, Query)>>, "")
    /\ pre' = coll
    /\ inflight' = <<Call("analyzeIndexPerformance", "createIndex", <<>>)>> \o Tail(inflight)
    /\ UNCHANGED <<pc, conn, next, coll, indexes, err, errors, closes>>

\* await books.createIndex({ title: 1 })
analyzeCreateIndex ==
    /\ answering("analyzeIndexPerformance", "createIndex")
    /\ indexes' = indexes \cup {TitleIndex}
    /\ inflight' = <<Call("analyzeIndexPerformance", "explainAfter", <<>>)>> \o Tail(inflight)
    /\ UNCHANGED <<pc, conn, next, coll, pre, out, err, errors, closes>>

\* after = await books.find(query).explain(...), then the After lines and the plan
analyzeExplainAfter ==
    /\ answering("analyzeIndexPerformance", "explainAfter")
    /\ LET after == explain(coll, indexes, Query)
       IN  out' = Printed(Append(out.rows, after), after.stage)
    /\ inflight' = Tail(inflight)
    /\ UNCHANGED <<pc, conn, next, coll, indexes, pre, err, errors, closes>>

functions ==
    \/ findAllBooks \/ findAfterYear \/ findByAuthor
    \/ updateBookPrice \/ deleteBookByTitle
    \/ findInStockAfter2010 \/ projectTitleAuthorPrice
    \/ sortByPrice \/ paginateBooks
    \/ averagePriceByGenre \/ authorWithMostBooks \/ booksByDecade
    \/ createTitleIndex \/ createCompoundIndex
    \/ analyzeDropIndexes \/ analyzeExplainBefore
    \/ analyzeCreateIndex \/ analyzeExplainAfter

-----------------------------------------------------------------------------
(* Spec: run() as written *)

Next ==
    \/ connect \/ connected
    \/ callNext \/ endOfTry
    \/ functions
    \/ fail \/ catchError
    \/ close \/ closed

Spec == Init /\ [][Next]_vars

\* Every request is answered or rejected and every continuation is run
FairSpec == Spec /\ WF_vars(Next)

-----------------------------------------------------------------------------
(* SpecAny: run() with the calls of the try block chosen freely ("You can  *)
(* comment/uncomment the query calls below to test them"), and with        *)
(* arguments other than the literals of the run list.                      *)

Titles == {"Moby Dick", "Wuthering Heights"}
Prices == {999}
Years == {1959}
Authors == {"George Orwell"}
Orders == {"asc", "desc"}
Pages == 0..MaxPage
PageSizes == {0, 2, 5}

called(c) ==
    /\ inflight' = Append(inflight, c)
    /\ next' = next + 1
    /\ UNCHANGED <<pc, conn, coll, indexes, pre, out, err, errors, closes>>

\* Some enabled call of the try block, with some arguments
callAny ==
    /\ pc = "body"
    /\ awaited
    /\ next <= MaxCalls
    /\ \/ called(Call("findAllBooks", "find", <<>>))
       \/ \E y \in Years : called(Call("findAfterYear", "find", <<y>>))
       \/ \E a \in Authors : called(Call("findByAuthor", "find", <<a>>))
       \/ \E t \in Titles, p \in Prices :
              called(Call("updateBookPrice", "updateOne", <<t, p>>))
       \/ \E t \in Titles : called(Call("deleteBookByTitle", "deleteOne", <<t>>))
       \/ called(Call("findInStockAfter2010", "find", <<>>))
       \/ called(Call("projectTitleAuthorPrice", "find", <<>>))
       \/ \E o \in Orders : called(Call("sortByPrice", "find", <<o>>))
       \/ \E p \in Pages, n \in PageSizes :
              called(Call("paginateBooks", "find", <<p, n>>))
       \/ called(Call("averagePriceByGenre", "aggregate", <<>>))
       \/ called(Call("authorWithMostBooks", "aggregate", <<>>))
       \/ called(Call("booksByDecade", "aggregate", <<>>))
       \/ called(Call("createTitleIndex", "createIndex", <<>>))
       \/ called(Call("createCompoundIndex", "createIndex", <<>>))
       \/ called(Call("analyzeIndexPerformance", "dropIndexes", <<>>))

\* The end of the try block, wherever the enabled calls end
endOfAny ==
    /\ pc = "body"
    /\ awaited
    /\ conn = "open"
    /\ pc' = "finally"
    /\ UNCHANGED <<conn, next, inflight, coll, indexes, pre, out, err, errors, closes>>

NextAny ==
    \/ connect \/ connected
    \/ callAny \/ endOfAny
    \/ functions
    \/ fail \/ catchError
    \/ close \/ closed

\* The seeded collection has no secondary index yet; the calls create them
InitAny == Init /\ indexes = {}

SpecAny == InitAny /\ [][NextAny]_vars

-----------------------------------------------------------------------------
(* Properties *)

TitlesOf(c) == { c[i].title : i \in Indices(c) }
Without(c, i) == SubSeq(c, 1, i - 1) \o SubSeq(c, i + 1, Len(c))
BooksOf(c, a) == Cardinality({ i \in Indices(c) : c[i].author = a })
InDecade(c, d) ==
    { i \in Indices(c) : c[i].published_year - (c[i].published_year % 10) = d }

RECURSIVE TotalBooks(_)
TotalBooks(rows) ==
    IF rows = <<>> THEN 0 ELSE Head(rows).totalBooks + TotalBooks(Tail(rows))

\* C1: on every run the connection is eventually closed, exactly once: close()
\* is called at most once, no function is called once close() has been called,
\* run() ends, and when it has ended close() was called once and the
\* connection is closed -- whether connect() failed, a function failed or
\* all succeeded.
ClosedExactlyOnce ==
    /\ [](closes <= 1)
    /\ [](pc = "done" => closes = 1 /\ conn = "closed" /\ inflight = <<>>)
    /\ [][closes = 1 => next' = next /\ closes' = 1]_vars
    /\ <>(pc = "done")

\* a function failed in the middle of the list and the connection was closed
ClosedAfterFailure ==
    /\ pc = "done"
    /\ conn = "closed"
    /\ closes = 1
    /\ errors = 1
    /\ next \in 3..Len(RunList)

\* C2: a failure is logged once by the one handler, no later function of the
\* list is called, the run goes from the failed call to closing the
\* connection, and what earlier functions changed stays changed.
FailureEndsRun ==
    /\ [](errors <= 1)
    /\ [](err = "none" => errors = 0)
    /\ [](err # "none" => pc \in {"catch", "finally", "closing", "done"})
    /\ [](pc = "done" /\ err # "none" => errors = 1)
    /\ [][err # "none" =>
            /\ next' = next
            /\ coll' = coll
            /\ indexes' = indexes
            /\ err' = err
            /\ inflight' # <<>> => Head(inflight').op = "close"]_vars

\* the call after a successful delete failed; the document stays deleted
FailedAfterDelete ==
    /\ pc = "done"
    /\ errors = 1
    /\ next = 7
    /\ out.op = "deleteBookByTitle"
    /\ out.report = "Success"
    /\ Len(coll) = Len(pre) - 1

\* C3: at most one request is in flight; the functions are called in the
\* order of the run list, each after the answer to the one before; every
\* call is made with the connection open and before close() is called.
OneCallAtATime ==
    /\ [](Len(inflight) <= 1)
    /\ [](inflight # <<>> /\ Head(inflight).op \notin {"connect", "close"} =>
            /\ conn = "open"
            /\ closes = 0
            /\ next \in 2..(Len(RunList) + 1)
            /\ Head(inflight).op = RunList[next - 1].op)
    /\ [][next' # next =>
            /\ next' = next + 1
            /\ inflight = <<>>
            /\ inflight' = <<RunList[next]>>]_vars

\* the last request of the last function is in flight
LastCallInFlight ==
    /\ inflight # <<>>
    /\ Head(inflight).call = "explainAfter"
    /\ next = Len(RunList) + 1
    /\ conn = "open"

\* C4: updateBookPrice with a title no document has reports "No match found"
\* and leaves the collection as it was.
UpdateOfMissingTitle ==
    (out.op = "updateBookPrice" /\ out.args[1] \notin TitlesOf(pre)) =>
        /\ out.report = "No match found"
        /\ coll = pre

UpdateMissed ==
    /\ out.op = "updateBookPrice"
    /\ pre # <<>>
    /\ out.args[1] \notin TitlesOf(pre)
    /\ out.report = "No match found"

\* C5: deleteBookByTitle removes at most one document: with no document of
\* the title it reports "No match found" and the collection is unchanged;
\* otherwise it reports "Success" and exactly one document, one with that
\* title, is gone.
DeleteAtMostOne ==
    out.op = "deleteBookByTitle" =>
        IF out.args[1] \notin TitlesOf(pre)
        THEN out.report = "No match found" /\ coll = pre
        ELSE /\ out.report = "Success"
             /\ Len(coll) = Len(pre) - 1
             /\ \E i \in Indices(pre) :
                    pre[i].title = out.args[1] /\ coll = Without(pre, i)

\* two documents had the title and one of them is left
DeletedOneOfTwo ==
    /\ out.op = "deleteBookByTitle"
    /\ Cardinality({ i \in Indices(pre) : pre[i].title = out.args[1] }) = 2
    /\ out.args[1] \in TitlesOf(coll)
    /\ out.report = "Success"

\* C6: paginateBooks(page, pageSize) returns at most pageSize documents, the
\* first of them the document at offset (page - 1) * pageSize, for every page
\* and pageSize, 0 included.
PageWithinPageSize ==
    out.op = "paginateBooks" =>
        LET page == out.args[1]
            pageSize == out.args[2]
        IN  /\ Len(out.rows) <= pageSize
            /\ out.rows # <<>> => out.rows[1] = pre[(page - 1) * pageSize + 1]

\* C7 as stated: authorWithMostBooks returns exactly one result, with the
\* largest number of documents any author has.
MostBooksOneResult ==
    out.op = "authorWithMostBooks" =>
        /\ Len(out.rows) = 1
        /\ \A i \in Indices(pre) : BooksOf(pre, pre[i].author) <= out.rows[1].totalBooks

\* C7 amended: on a collection with at least one document authorWithMostBooks
\* returns exactly one result, an author of the collection with that author's
\* number of documents, which is the largest any author has, ties included;
\* on an empty collection it returns no result.
MostBooksOneResultUnlessEmpty ==
    out.op = "authorWithMostBooks" =>
        IF pre = <<>>
        THEN out.rows = <<>>
        ELSE /\ Len(out.rows) = 1
             /\ \E i \in Indices(pre) :
                    /\ out.rows[1]._id = pre[i].author
                    /\ out.rows[1].totalBooks = BooksOf(pre, pre[i].author)
             /\ \A i \in Indices(pre) :
                    BooksOf(pre, pre[i].author) <= out.rows[1].totalBooks

\* two authors tie for the largest count and one of them is returned
MostBooksTie ==
    /\ out.op = "authorWithMostBooks"
    /\ Len(out.rows) = 1
    /\ \E i, j \in Indices(pre) :
          /\ pre[i].author # pre[j].author
          /\ BooksOf(pre, pre[i].author) = out.rows[1].totalBooks
          /\ BooksOf(pre, pre[j].author) = out.rows[1].totalBooks

\* C8: booksByDecade has, for every document, a group whose key is
\* published_year - (published_year mod 10); each group counts the documents
\* of its decade, so two documents share a group exactly when their decades
\* are equal; the counts sum to the number of documents; the keys ascend.
DecadeGroups ==
    out.op = "booksByDecade" =>
        /\ \A i \in Indices(pre) : \E k \in Indices(out.rows) :
              out.rows[k]._id = pre[i].published_year - (pre[i].published_year % 10)
        /\ \A k \in Indices(out.rows) :
              /\ InDecade(pre, out.rows[k]._id) # {}
              /\ out.rows[k].totalBooks = Cardinality(InDecade(pre, out.rows[k]._id))
        /\ \A k, l \in Indices(out.rows) : k < l => out.rows[k]._id < out.rows[l]._id
        /\ TotalBooks(out.rows) = Len(pre)

\* 1955 and 1959 are counted under 1950, and 1960 under 1960
DecadesOfTheFifties ==
    /\ out.op = "booksByDecade"
    /\ { pre[i].published_year : i \in Indices(pre) } = {1955, 1959, 1960}
    /\ out.rows = << [_id |-> 1950, totalBooks |-> 2], [_id |-> 1960, totalBooks |-> 1] >>

\* C9: updateBookPrice reports "Success" whenever at least one document has
\* the title, whatever price that document already holds.
UpdateOfPresentTitle ==
    (out.op = "updateBookPrice" /\ out.args[1] \in TitlesOf(pre)) =>
        out.report = "Success"

\* C10: analyzeIndexPerformance sends its first explain with no secondary
\* index on the collection and its second with the title index there; when it
\* has returned, the title index is the only secondary index, so after a full
\* run the compound index made by createCompoundIndex is gone.
OnlyTitleIndexAfterAnalyze ==
    /\ (inflight # <<>> /\ Head(inflight).call = "explainBefore") => indexes = {}
    /\ (inflight # <<>> /\ Head(inflight).call = "explainAfter") => TitleIndex \in indexes
    /\ (out.op = "analyzeIndexPerformance" /\ Len(out.rows) = 2) =>
          /\ indexes = {TitleIndex}
          /\ out.rows[1].stage = "COLLSCAN"
          /\ out.rows[2].stage = "FETCH"
    /\ (pc = "done" /\ err = "none") =>
          /\ CompoundIndex \notin indexes
          /\ indexes = {TitleIndex}

\* the whole list has run without a failure
FullRunDone ==
    /\ pc = "done"
    /\ err = "none"
    /\ out.op = "analyzeIndexPerformance"
    /\ Len(out.rows) = 2
    /\ indexes = {TitleIndex}

====
